---- MODULE Spec2Model ----
(***************************************************************************)
(* WealthVision portfolio form (src/types.ts, component App) and its       *)
(* forecast client (src/unnamed/part_000, getPortfolioPrediction).         *)
(*                                                                         *)
(* Strings are sequences of one-character strings.  Weights and amounts    *)
(* are integers.  A handler of the component reads the values captured by  *)
(* the render that created it (variable view) and writes the state behind  *)
(* the useState hooks.                                                     *)
(***************************************************************************)
EXTENDS Integers, Sequences, FiniteSets, TLC

\* holdings .. error   the values behind the useState hooks of App
\* view                the values the current render captured
\* pending             the calls of getPortfolioPrediction not yet settled
\* requests            how many such calls were made
\* resultOf            the number of the call whose value is in result
\* adds, removes       how many holdings were appended / removeHolding calls
\* addRejected         the latest event was an addHolding call that left
\*                     the list as it was
VARIABLES holdings, initialInvestment, newSymbol, newWeight,
          isLoading, result, error,
          view, pending, requests, resultOf, adds, removes, addRejected

formVars == <<holdings, initialInvestment, newSymbol, newWeight,
              isLoading, result, error>>
vars == <<holdings, initialInvestment, newSymbol, newWeight,
          isLoading, result, error, view, pending, requests, resultOf,
          adds, removes, addRejected>>

\* ------------------------------------------------------------------ bounds
\* successful addHolding calls, removeHolding calls and forecast requests
\* of one behaviour
MaxAdds == 2
MaxRemoves == 2
MaxRequests == 2

\* ------------------------------------------------------- program constants
MaxHoldings == 10
MaxSymbolLen == 50
MinInvestment == 100
FullWeight == 100
MaxWeight == 100

\* ------------------------------------------------------------- characters
Letters ==
  {"a","b","c","d","e","f","g","h","i","j","k","l","m","n","o","p","q","r",
   "s","t","u","v","w","x","y","z",
   "A","B","C","D","E","F","G","H","I","J","K","L","M","N","O","P","Q","R",
   "S","T","U","V","W","X","Y","Z"}
Digits == {"0","1","2","3","4","5","6","7","8","9"}
\* the complement of the class [^a-zA-Z0-9.\- ]
AllowedChars == Letters \cup Digits \cup {".", "-", " "}
\* the characters String.prototype.trim strips
WhiteSpace == {" ", "\t", "\n", "\r"}

Take(s, n) == SubSeq(s, 1, IF Len(s) < n THEN Len(s) ELSE n)

\* sanitizeInput without its substring(0, 50)
sanitizeInput_noLimit(val) == SelectSeq(val, LAMBDA c : c \in AllowedChars)

\* val.replace(/[^a-zA-Z0-9.\- ]/g, '').substring(0, 50)
sanitizeInput(val) ==
  Take(SelectSeq(val, LAMBDA c : c \in AllowedChars), MaxSymbolLen)

RECURSIVE trimStart(_)
trimStart(s) ==
  IF s # <<>> /\ Head(s) \in WhiteSpace THEN trimStart(Tail(s)) ELSE s
RECURSIVE trimEnd(_)
trimEnd(s) ==
  IF s # <<>> /\ s[Len(s)] \in WhiteSpace
    THEN trimEnd(SubSeq(s, 1, Len(s) - 1)) ELSE s
\* String.prototype.trim
trim(s) == trimEnd(trimStart(s))

startsWith(s, p) == Len(s) >= Len(p) /\ SubSeq(s, 1, Len(p)) = p

RECURSIVE SumWeights(_)
SumWeights(hs) ==
  IF hs = <<>> THEN 0 ELSE hs[1].weight + SumWeights(Tail(hs))

\* holdings.reduce((sum, h) => sum + h.weight, 0)
totalWeight(hs) == SumWeights(hs)

\* ---------------------------------------------------------------- messages
NULL == "<null>"
MaxHoldingsMessage == "Maximum of 10 holdings allowed for stability."
WeightMessage == "Total portfolio weight must equal 100%"
InvestmentMessage == "Please enter a minimum investment of $100."
AnalysisFallbackMessage == "An error occurred during analysis."
SafetyMessage ==
  "The AI detected inappropriate or non-financial input. Please use valid stock tickers or company names."
InvalidDataMessage ==
  "Invalid prediction data received. Ensure all tickers are valid financial assets."
\* messages of the errors the JavaScript runtime raises inside the try block
SyntaxErrorMessage == "Unexpected token in JSON"
NullTypeErrorMessage == "Cannot read properties of null (reading 'insights')"
NotFunctionMessage == "result.insights.startsWith is not a function"

\* a in place of a || b
OrElse_noFallback(a, b) == a

\* a || b on strings: the empty string is falsy
OrElse(a, b) == IF a = "" THEN b ELSE a

\* ------------------------------------------------------------------- JSON
\* A response body is a sequence of tokens [t, v]: t is the token kind
\* ("{", "}", ":", ",", "str", "num", "null", "nested" for a well-formed
\* array or object literal used as a member value, "junk" for anything that
\* is no JSON token) and v the characters of a string or number literal.
Tok(t) == [t |-> t, v |-> <<>>]
Str(v) == [t |-> "str", v |-> v]
Num(v) == [t |-> "num", v |-> v]

\* JavaScript values: [type, str, members]; members is the list of
\* key/value pairs of an object, in source order.
JSNull == [type |-> "null", str |-> <<>>, members |-> <<>>]
JSUndefined == [type |-> "undefined", str |-> <<>>, members |-> <<>>]
Scalar(tok) ==
  [type |-> IF tok.t = "str" THEN "string"
            ELSE IF tok.t = "num" THEN "number"
            ELSE IF tok.t = "nested" THEN "nested" ELSE "null",
   str |-> tok.v, members |-> <<>>]
IsValueTok(tok) == tok.t \in {"str", "num", "null", "nested"}

\* the tokens between the braces are  key : value (, key : value)*
WellFormedMembers(inner) ==
  /\ Len(inner) % 4 = 3
  /\ \A i \in 1..Len(inner) :
       CASE i % 4 = 1 -> inner[i].t = "str"
         [] i % 4 = 2 -> inner[i].t = ":"
         [] i % 4 = 3 -> IsValueTok(inner[i])
         [] OTHER     -> inner[i].t = ","
MembersOf(inner) ==
  [k \in 1..((Len(inner) + 1) \div 4) |->
     [key |-> inner[4 * k - 3].v, val |-> Scalar(inner[4 * k - 1])]]

\* JSON.parse(text): the value, or the SyntaxError it throws
JSONparse(text) ==
  LET syntaxError == [ok |-> FALSE, value |-> JSNull,
                      message |-> SyntaxErrorMessage]
      inner == SubSeq(text, 2, Len(text) - 1)
  IN  IF Len(text) = 1 /\ IsValueTok(text[1]) /\ text[1].t # "nested"
        THEN [ok |-> TRUE, value |-> Scalar(text[1]), message |-> ""]
      ELSE IF Len(text) >= 2 /\ text[1].t = "{" /\ text[Len(text)].t = "}"
              /\ (inner = <<>> \/ WellFormedMembers(inner))
        THEN [ok |-> TRUE, message |-> "",
              value |-> [type |-> "object", str |-> <<>>,
                         members |-> IF inner = <<>> THEN <<>>
                                     ELSE MembersOf(inner)]]
      ELSE syntaxError

\* obj[key]: the last member of that key, undefined when there is none
GetProp(obj, key) ==
  LET at == {i \in 1..Len(obj.members) : obj.members[i].key = key}
  IN  IF at = {} THEN JSUndefined
      ELSE LET m == obj.members[CHOOSE i \in at : \A j \in at : j <= i].val
           IN  [type |-> m.type, str |-> m.str, members |-> <<>>]

Truthy(v) ==
  CASE v.type = "string" -> v.str # <<>>
    [] v.type = "number" -> v.str # <<"0">>
    [] v.type \in {"object", "nested"} -> TRUE
    [] OTHER -> FALSE

SafetyPrefix == <<"S","A","F","E","T","Y","_","E","R","R","O","R">>
InsightsKey == <<"i","n","s","i","g","h","t","s">>

\* ------------------------------------------------- getPortfolioPrediction
Return(v) == [ok |-> TRUE, value |-> v, message |-> ""]
Throw(m) == [ok |-> FALSE, value |-> JSNull, message |-> m]

\* result.insights && result.insights.startsWith("SAFETY_ERROR"), for a
\* string
isSafetyRefusal_exact(insights) ==
  Truthy(insights) /\ insights.str = SafetyPrefix

isSafetyRefusal(insights) ==
  Truthy(insights) /\ startsWith(insights.str, SafetyPrefix)

\* the try/catch that unwraps response.text: what the promise settles to
unwrapResponse(text) ==
  LET parsed == JSONparse(text)
      res == parsed.value
      insights == GetProp(res, InsightsKey)
      \* catch (error): throw new Error(error.message || "Invalid ...")
      Rethrow(m) == Throw(OrElse(m, InvalidDataMessage))
  IN  IF ~parsed.ok THEN Rethrow(parsed.message)
      ELSE IF res.type \in {"null", "undefined"}
        THEN Rethrow(NullTypeErrorMessage)
      ELSE IF Truthy(insights) /\ insights.type # "string"
        THEN Rethrow(NotFunctionMessage)
      ELSE IF isSafetyRefusal(insights)
        THEN Rethrow(SafetyMessage)
      ELSE Return(res)

\* ------------------------------------------------------------------ inputs
\* what the user types in the symbol field (e.target.value)
SymbolPattern == <<"a", "-", "Z", " ", "9", ".">>
LongSymbol ==
  <<"$">> \o [i \in 1..(MaxSymbolLen + 1) |-> SymbolPattern[((i - 1) % 6) + 1]]
RawSymbols == { <<"<", "$", ">">>, <<" ", "\t", " ">>, LongSymbol }
\* what the user types in the weight field and in the amount field
WeightInputs == {0, 100, 101}
InvestmentInputs == {99, 100, 10000}
\* values of Math.random().toString(36).substr(2, 9)
GenIds == {"n9", "k7"}

\* bodies the external service answers with (response.text)
Chars_SafetyRefusal == SafetyPrefix \o <<":", " ", "n", "o">>
Chars_Insight == <<"U", "p">>
Chars_Data == <<"p","r","e","d","i","c","t","i","o","n","D","a","t","a">>
Member(k, v) == <<Str(k), Tok(":"), v>>
Object(ms) == <<Tok("{")>> \o ms \o <<Tok("}")>>
Body_Forecast ==
  Object(Member(Chars_Data, Tok("nested")) \o <<Tok(",")>>
         \o Member(InsightsKey, Str(Chars_Insight)))
Body_Safety ==
  Object(Member(Chars_Data, Tok("nested")) \o <<Tok(",")>>
         \o Member(InsightsKey, Str(Chars_SafetyRefusal)))
Body_Null == <<Tok("null")>>
Body_Html == <<Tok("junk")>>
Body_Cut == <<Tok("{")>> \o Member(InsightsKey, Str(Chars_Insight))
ResponseBodies ==
  { Body_Forecast, Body_Safety, Body_Null, Body_Html, Body_Cut }
\* err.message of a rejected generateContent call
TransportMessages == {"fetch failed", ""}

\* ------------------------------------------------------------------- state
Chars_VOO == <<"V", "O", "O">>
Chars_Apple == <<"A", "p", "p", "l", "e">>
Holding(id, symbol, weight) ==
  [id |-> id, symbol |-> symbol, weight |-> weight]
DefaultHoldings ==
  << Holding("1", Chars_VOO, 60), Holding("2", Chars_Apple, 40) >>
\* a list the form reaches by removing both defaults and adding ten
\* holdings of 10% each
TenIds == <<"t0", "t1", "t2", "t3", "t4", "t5", "t6", "t7", "t8", "t9">>
TenHoldings == [i \in 1..MaxHoldings |-> Holding(TenIds[i], <<"x">>, 10)]

\* a list the form reaches by adding one holding of 100% to the defaults
OverHoldings == Append(DefaultHoldings, Holding("k7", <<"x">>, 100))

\* the values a render captures for the handlers and the markup it creates
Rendered ==
  [holdings |-> holdings, initialInvestment |-> initialInvestment,
   newSymbol |-> newSymbol, newWeight |-> newWeight, isLoading |-> isLoading]

\* the state the useState calls of App construct, with list hs
InitWith(hs) ==
  /\ holdings = hs
  /\ initialInvestment = 10000
  /\ newSymbol = <<>>
  /\ newWeight = 0
  /\ isLoading = FALSE
  /\ result = JSNull
  /\ error = NULL
  /\ view = Rendered
  /\ pending = {}
  /\ requests = 0
  /\ resultOf = 0
  /\ adds = 0
  /\ removes = 0
  /\ addRejected = FALSE

Init == InitWith(DefaultHoldings)

\* the list editor also starts from the full list
InitEdit == \E hs \in {DefaultHoldings, TenHoldings} : InitWith(hs)

\* the forecast path also starts from the full list and from a list of 200%
InitDirect ==
  \E hs \in {DefaultHoldings, TenHoldings, OverHoldings} : InitWith(hs)

\* ---------------------------------------------------------------- handlers
\* holdings.length >= 10
listFull(hs) == Len(hs) >= MaxHoldings
\* weight < 0 in place of weight <= 0
notPositive_strict(weight) == weight < 0
\* isNaN(weight) || weight <= 0, for a number
notPositive(weight) == weight <= 0
\* weight > 100
overMax(weight) == weight > MaxWeight

\* addHolding, run by the handler of the render in view; id is the value
\* Math.random() yields
addHolding(id) ==
  LET cleanSymbol == trim(sanitizeInput(view.newSymbol))
      weight == view.newWeight
  IN  IF cleanSymbol = <<>> THEN UNCHANGED formVars
      ELSE IF listFull(view.holdings)
        THEN /\ error' = MaxHoldingsMessage
             /\ UNCHANGED <<holdings, initialInvestment, newSymbol,
                            newWeight, isLoading, result>>
      ELSE IF notPositive(weight) THEN UNCHANGED formVars
      ELSE IF overMax(weight) THEN UNCHANGED formVars
      ELSE /\ holdings' = Append(holdings, Holding(id, cleanSymbol, weight))
           /\ newSymbol' = <<>>
           /\ newWeight' = 0
           /\ error' = NULL
           /\ UNCHANGED <<initialInvestment, isLoading, result>>

\* filter(h => h.id === id) in place of filter(h => h.id !== id)
removeHolding_keep(id) ==
  /\ holdings' = SelectSeq(holdings, LAMBDA h : h.id = id)
  /\ error' = NULL
  /\ UNCHANGED <<initialInvestment, newSymbol, newWeight, isLoading, result>>

\* setHoldings(prev => prev.filter(h => h.id !== id)); setError(null)
removeHolding(id) ==
  /\ holdings' = SelectSeq(holdings, LAMBDA h : h.id # id)
  /\ error' = NULL
  /\ UNCHANGED <<initialInvestment, newSymbol, newWeight, isLoading, result>>

\* the request getPortfolioPrediction(holdings, initialInvestment) sends
Request(n, hs, amount) ==
  [n |-> n, holdings |-> hs, initialInvestment |-> amount]

\* totalWeight !== 100
weightInvalid(v) == totalWeight(v.holdings) # FullWeight
\* initialInvestment <= 0 in place of initialInvestment < 100
investmentTooLow_zero(v) == v.initialInvestment <= 0
\* initialInvestment < 100
investmentTooLow(v) == v.initialInvestment < MinInvestment

\* handlePredict up to its await: the request it issues joins pending
handlePredict ==
  IF weightInvalid(view)
    THEN /\ error' = WeightMessage
         /\ UNCHANGED <<holdings, initialInvestment, newSymbol, newWeight,
                        isLoading, result, pending, requests>>
  ELSE IF investmentTooLow(view)
    THEN /\ error' = InvestmentMessage
         /\ UNCHANGED <<holdings, initialInvestment, newSymbol, newWeight,
                        isLoading, result, pending, requests>>
  ELSE /\ error' = NULL
       /\ isLoading' = TRUE
       /\ requests' = requests + 1
       /\ pending' = pending \cup
            {Request(requests + 1, view.holdings, view.initialInvestment)}
       /\ UNCHANGED <<holdings, initialInvestment, newSymbol, newWeight,
                      result>>

\* handlePredict without its finally block: a failure leaves isLoading set
settle_noFinally(p, outcome) ==
  /\ pending' = pending \ {p}
  /\ IF outcome.ok
       THEN /\ result' = outcome.value
            /\ resultOf' = p.n
            /\ isLoading' = FALSE
            /\ UNCHANGED error
       ELSE /\ error' = OrElse(outcome.message, AnalysisFallbackMessage)
            /\ UNCHANGED <<result, resultOf, isLoading>>
  /\ UNCHANGED <<holdings, initialInvestment, newSymbol, newWeight>>

\* handlePredict after its await, for request p settled with outcome
settle(p, outcome) ==
  /\ pending' = pending \ {p}
  /\ IF outcome.ok
       THEN /\ result' = outcome.value
            /\ resultOf' = p.n
            /\ UNCHANGED error
       ELSE /\ error' = OrElse(outcome.message, AnalysisFallbackMessage)
            /\ UNCHANGED <<result, resultOf>>
  /\ isLoading' = FALSE
  /\ UNCHANGED <<holdings, initialInvestment, newSymbol, newWeight>>

\* the button without isLoading in its disabled attribute
submitDisabled_noLoading(v) == totalWeight(v.holdings) # FullWeight

\* disabled={isLoading || totalWeight !== 100}
submitDisabled(v) == v.isLoading \/ totalWeight(v.holdings) # FullWeight

\* --------------------------------------------------------------- the form
\* React renders again after every event it handles and after every state
\* change of a resumed handler; the next event meets the new render.
Rerender == view' = Rendered'

countAdd ==
  /\ adds' = IF Len(holdings') > Len(holdings) THEN adds + 1 ELSE adds
  /\ adds' <= MaxAdds

SetNewSymbol ==
  \E raw \in RawSymbols :
    /\ newSymbol' = sanitizeInput(raw)
    /\ UNCHANGED <<holdings, initialInvestment, newWeight, isLoading, result,
                   error, pending, requests, resultOf, adds, removes>>
    /\ addRejected' = FALSE
    /\ Rerender

SetNewWeight ==
  \E w \in WeightInputs :
    /\ newWeight' = w
    /\ UNCHANGED <<holdings, initialInvestment, newSymbol, isLoading, result,
                   error, pending, requests, resultOf, adds, removes>>
    /\ addRejected' = FALSE
    /\ Rerender

SetInvestment ==
  \E a \in InvestmentInputs :
    /\ initialInvestment' = a
    /\ UNCHANGED <<holdings, newSymbol, newWeight, isLoading, result,
                   error, pending, requests, resultOf, adds, removes>>
    /\ addRejected' = FALSE
    /\ Rerender

AddHolding ==
  \E id \in GenIds :
    /\ addHolding(id)
    /\ countAdd
    /\ addRejected' = (holdings' = holdings)
    /\ UNCHANGED <<pending, requests, resultOf, removes>>
    /\ Rerender

RemoveHolding ==
  \E i \in 1..Len(view.holdings) :
    /\ removes < MaxRemoves
    /\ removeHolding(view.holdings[i].id)
    /\ removes' = removes + 1
    /\ addRejected' = FALSE
    /\ UNCHANGED <<pending, requests, resultOf, adds>>
    /\ Rerender

Submit ==
  /\ ~submitDisabled(view)
  /\ handlePredict
  /\ requests' <= MaxRequests
  /\ addRejected' = FALSE
  /\ UNCHANGED <<resultOf, adds, removes>>
  /\ Rerender

\* the external call of request p resolves with body text
RespondWith(p, text) ==
  /\ settle(p, unwrapResponse(text))
  /\ addRejected' = FALSE
  /\ UNCHANGED <<requests, adds, removes>>
  /\ Rerender

Respond ==
  \E p \in pending : \E text \in ResponseBodies : RespondWith(p, text)

\* the external call of request p rejects with message m; the rejection
\* passes through getPortfolioPrediction, whose try block starts after the
\* await
FailWith(p, m) ==
  /\ settle(p, Throw(m))
  /\ addRejected' = FALSE
  /\ UNCHANGED <<requests, adds, removes>>
  /\ Rerender

Fail ==
  \E p \in pending : \E m \in TransportMessages : FailWith(p, m)

Next ==
  \/ SetNewSymbol
  \/ SetNewWeight
  \/ SetInvestment
  \/ AddHolding
  \/ RemoveHolding
  \/ Submit
  \/ Respond
  \/ Fail

Spec == Init /\ [][Next]_vars

\* ------------------------------------------- the controller called directly
\* requestForecast of the controller, called whatever the markup shows: the
\* disabled attribute of the button does not stand between the caller and
\* handlePredict.
SubmitDirect ==
  /\ handlePredict
  /\ requests' <= MaxRequests
  /\ addRejected' = FALSE
  /\ UNCHANGED <<resultOf, adds, removes>>
  /\ Rerender

NextDirect ==
  \/ SetInvestment
  \/ RemoveHolding
  \/ SubmitDirect
  \/ Respond
  \/ Fail

SpecDirect == InitDirect /\ [][NextDirect]_vars

\* ----------------------------------------------------------- the list editor
\* the events that edit the list, from the constructed list or the full one
NextEdit ==
  \/ SetNewSymbol
  \/ SetNewWeight
  \/ AddHolding
  \/ RemoveHolding

SpecEdit == InitEdit /\ [][NextEdit]_vars

\* ------------------------------------------- several calls within one render
\* addHolding and removeHolding called again before React has rendered: the
\* calls share the handlers, and so the captured values, of one render.
AddHoldingCall ==
  \E id \in GenIds :
    /\ addHolding(id)
    /\ countAdd
    /\ addRejected' = (holdings' = holdings)
    /\ UNCHANGED <<pending, requests, resultOf, removes, view>>

RemoveHoldingCall ==
  \E i \in 1..Len(view.holdings) :
    /\ removes < MaxRemoves
    /\ removeHolding(view.holdings[i].id)
    /\ removes' = removes + 1
    /\ addRejected' = FALSE
    /\ UNCHANGED <<pending, requests, resultOf, adds, view>>

Flush ==
  /\ view # Rendered
  /\ view' = Rendered
  /\ UNCHANGED <<holdings, initialInvestment, newSymbol, newWeight,
                 isLoading, result, error, pending, requests, resultOf,
                 adds, removes, addRejected>>

NextBatch ==
  \/ SetNewSymbol
  \/ SetNewWeight
  \/ AddHoldingCall
  \/ RemoveHoldingCall
  \/ Flush

SpecBatch == InitEdit /\ [][NextBatch]_vars

\* ------------------------------------------------------------------ claims
TypeOK ==
  /\ isLoading \in BOOLEAN
  /\ view.holdings \in Seq([id : STRING, symbol : Seq(STRING), weight : Int])
  /\ Cardinality(pending) <= MaxRequests
  /\ requests \in 0..MaxRequests
  /\ adds \in 0..MaxAdds
  /\ removes \in 0..MaxRemoves

\* C1: a submit made while the weights do not sum to exactly 100 or the
\* investment is below 100 sends no request, does not change the loading
\* flag and leaves a validation message in error.
C1_SubmitRefused ==
  [][ (SubmitDirect /\ (totalWeight(holdings) # 100 \/ initialInvestment < 100))
        => /\ pending' = pending
           /\ requests' = requests
           /\ isLoading' = isLoading
           /\ error' \in {WeightMessage, InvestmentMessage} ]_vars
C1_Witness ==
  /\ error = WeightMessage
  /\ totalWeight(holdings) # 100
  /\ pending = {}
  /\ ~isLoading

\* C2: at most one forecast request of the form is in flight at any time.
C2_OneInFlight == Cardinality(pending) <= 1
C2_Witness ==
  /\ requests = 2
  /\ isLoading
  /\ Cardinality(pending) = 1

\* C3: at most one of "isLoading is true", "error is not null" and
\* "result is not null" holds.
C3_Exclusive ==
  Cardinality({k \in {"loading", "error", "result"} :
                 \/ k = "loading" /\ isLoading
                 \/ k = "error" /\ error # NULL
                 \/ k = "result" /\ result # JSNull}) <= 1

\* C4: the holdings list never has more than 10 entries, also when several
\* addHolding calls are handled before the next render.
C4_AtMostTen == Len(holdings) <= 10

\* C5: a response that parses as JSON and whose insights begin with
\* SAFETY_ERROR ends the request with the safety message, which is not the
\* parse-failure message, and its payload is never stored as the result.
IsSafetyBody(text) ==
  /\ JSONparse(text).ok
  /\ LET ins == GetProp(JSONparse(text).value, InsightsKey)
     IN  ins.type = "string" /\ startsWith(ins.str, SafetyPrefix)
C5_SafetyRejected ==
  /\ [](LET ins == GetProp(result, InsightsKey)
        IN  ~(ins.type = "string" /\ startsWith(ins.str, SafetyPrefix)))
  /\ [][ \A p \in pending : \A text \in ResponseBodies :
           (RespondWith(p, text) /\ IsSafetyBody(text))
             => /\ error' = SafetyMessage
                /\ error' \notin {InvalidDataMessage, SyntaxErrorMessage}
                /\ result' = result
                /\ resultOf' = resultOf ]_vars
C5_Witness ==
  /\ error = SafetyMessage
  /\ result = JSNull
  /\ requests > 0
  /\ ~isLoading

\* C6: a response body that is not valid JSON ends the request without a
\* result and with the "Invalid prediction data" message.
C6_ParseMessage ==
  [][ \A p \in pending : \A text \in ResponseBodies :
        (RespondWith(p, text) /\ ~JSONparse(text).ok)
          => /\ result' = result
             /\ error' = InvalidDataMessage ]_vars

\* C7: addHolding changes the list exactly when the sanitized, trimmed
\* symbol is not empty, the list has fewer than 10 entries and the weight
\* is in (0, 100].
AddAccepts ==
  /\ trim(sanitizeInput(newSymbol)) # <<>>
  /\ Len(holdings) < 10
  /\ newWeight > 0
  /\ newWeight <= 100
C7_AddIff == [][ AddHolding => ((holdings' # holdings) <=> AddAccepts) ]_vars
C7_Witness ==
  /\ adds > 0
  /\ Len(holdings) = 10
  /\ addRejected
  /\ error = MaxHoldingsMessage

\* C8: while a request is in flight the holdings and the investment are the
\* ones the request was issued with.
C8_FrozenInFlight ==
  \A p \in pending :
    p.holdings = holdings /\ p.initialInvestment = initialInvestment

\* C9: after a rejected addHolding call error is not null.
C9_RejectionSurfaces == addRejected => error # NULL

\* C10: every holding has a symbol of 1 to 50 characters, all of them
\* letters, digits, space, hyphen or period, and a weight in (0, 100].
WellFormed(h) ==
  /\ Len(h.symbol) \in 1..50
  /\ \A i \in 1..Len(h.symbol) : h.symbol[i] \in Letters \cup Digits \cup {" ", "-", "."}
  /\ h.weight > 0
  /\ h.weight <= 100
C10_WellFormed == \A i \in 1..Len(holdings) : WellFormed(holdings[i])
C10_Witness ==
  /\ adds > 0
  /\ \E i \in 1..Len(holdings) :
       Len(holdings[i].symbol) = 50 /\ holdings[i].weight = 100

\* C11: the result the controller holds is the one of the latest request
\* started: starting a request discards the result of the one before, and
\* after a failed request no result is held.
C11_ResultOfLatest == result # JSNull => resultOf = requests

\* C12: a request that fails (safety refusal, body that is no JSON,
\* rejected call) leaves the form not loading with an error message and
\* with no request in flight; requests are started by submits only, the
\* button is enabled again right after the failure when the weights sum to
\* 100, and a submit with valid input starts exactly one request.
FailingBodies ==
  {text \in ResponseBodies : ~JSONparse(text).ok \/ IsSafetyBody(text)}
FailedStep(p) ==
  \/ \E text \in FailingBodies : RespondWith(p, text)
  \/ \E m \in TransportMessages : FailWith(p, m)
C12_UsableAfterFailure ==
  /\ [][ \A p \in pending :
           FailedStep(p)
             => /\ ~isLoading'
                /\ error' \notin {NULL, ""}
                /\ pending' = {}
                /\ requests' = requests
                /\ (totalWeight(holdings') = 100
                      => ~view'.isLoading /\ totalWeight(view'.holdings) = 100)
       ]_vars
  /\ [][ (requests' # requests \/ pending' \ pending # {}) => Submit ]_vars
  /\ [][ (Submit /\ totalWeight(holdings) = 100 /\ initialInvestment >= 100)
           => /\ requests' = requests + 1
              /\ Cardinality(pending' \ pending) = 1
              /\ isLoading' ]_vars
\* the second request is in flight and the first one failed
C12_Witness ==
  /\ requests = 2
  /\ Cardinality(pending) = 1
  /\ isLoading
  /\ resultOf = 0
  /\ result = JSNull
  /\ error = NULL

\* C13: an addHolding call that is accepted appends exactly one holding at
\* the end and leaves the holdings before it as they were, in order; the new
\* holding's id differs from every id already in the list, so the ids of
\* the list are pairwise distinct.
IdsDistinct(hs) ==
  \A i \in 1..Len(hs) : \A j \in 1..Len(hs) : i # j => hs[i].id # hs[j].id
C13_AppendFresh ==
  /\ [] IdsDistinct(holdings)
  /\ [][ (AddHolding /\ holdings' # holdings)
           => /\ Len(holdings') = Len(holdings) + 1
              /\ SubSeq(holdings', 1, Len(holdings)) = holdings
              /\ \A i \in 1..Len(holdings) :
                   holdings[i].id # holdings'[Len(holdings')].id ]_vars

\* C14: removeHolding(id) takes out of the list the holdings of that id and
\* no other: the holdings of every other id stay, in their order, and the
\* list is unchanged when no holding has the id.
RemoveStep(id) == removeHolding(id) /\ removes' = removes + 1
C14_RemoveOnly ==
  [][ \A k \in 1..Len(view.holdings) :
        LET id == view.holdings[k].id
            others(hs) == SelectSeq(hs, LAMBDA h : h.id # id)
        IN  RemoveStep(id)
              => /\ others(holdings') = others(holdings)
                 /\ \A i \in 1..Len(holdings') : holdings'[i].id # id
                 /\ ((\A i \in 1..Len(holdings) : holdings[i].id # id)
                       => holdings' = holdings) ]_vars
\* of two calls made from the full list one found no holding of its id
C14_Witness ==
  /\ removes = 2
  /\ adds = 0
  /\ Len(holdings) = 9

\* C15: isLoading becomes true only by an accepted submit, which starts a
\* request, and false only when the external call returns or is rejected;
\* while the call is unsettled the form stays loading; a settled request
\* either stores its value as the result and leaves error alone, or stores
\* an error message and leaves the result alone.
C15_RequestLifecycle ==
  /\ [](isLoading <=> pending # {})
  /\ [][ (~isLoading /\ isLoading')
           => Submit /\ requests' = requests + 1 ]_vars
  /\ [][ (isLoading /\ ~isLoading') => (Respond \/ Fail) ]_vars
  /\ [][ \A p \in pending :
           p \notin pending'
             => LET stored == /\ resultOf' = p.n
                              /\ result' # JSNull
                              /\ error' = error
                    failed == /\ error' \notin {NULL, ""}
                              /\ result' = result
                              /\ resultOf' = resultOf
                IN  /\ stored \/ failed
                    /\ ~(stored /\ failed)
                    /\ ~isLoading' ]_vars
\* the first request has ended with a forecast
C15_Witness ==
  /\ resultOf = 1
  /\ requests = 1
  /\ result # JSNull
  /\ error = NULL
  /\ ~isLoading
  /\ pending = {}

====
